---- MODULE Spec2Model ----
(***************************************************************************)
(* A model of the pampi pipeline of grayfall/biomisc:                      *)
(*   - the cd-hit cluster report parser   (src/pipeline/pampi/picking.py)  *)
(*   - the clustering invocation cdpick and the cdhit wrapper it calls     *)
(*   - the FILTER stage and the CLI's construction of the samples          *)
(*                                                      (src/pampi.py)     *)
(*   - the assembly of the routers into one transformation (core.pcompile) *)
(* Text is modelled as tuples of one-character strings, so that str.strip, *)
(* str.startswith and the SEQID regular expression do real work.           *)
(***************************************************************************)
EXTENDS Integers, Sequences, FiniteSets, TLC

VARIABLES
    \* ---- parse_cdhit_clusters
    report,      \* the lines of the report as the tool wrote them (descriptors)
    handle,      \* the report as text: what iterating the file handle yields
    drop_empty,  \* the drop_empty flag
    parsed       \* the call's outcome: the clusters yielded, the exception raised

VARIABLES
    \* ---- the environment of a batch of cdpick calls
    tmpdir_exists,  \* os.path.exists(tmpdir)
    which_finds,    \* shutil.which(CDHIT) finds the executable
    calls,          \* the batch: per sample, the input resource and the output argument
    \* ---- the batch
    idx,            \* the sample the batch is at
    pc,             \* where control is
    rets,           \* per finished call: what cdpick gave its caller
    records,        \* the calls whose result the batch has collected
    crashed,        \* the exception that ended the batch, or None
    res_released,   \* the collected results the caller has released
    \* ---- the files
    fs,             \* the paths that exist
    removed,        \* every path that was deleted, by whom
    nrand,          \* how many names util.randname has given out
    out_lines,      \* the text last written to an output path
    clstr_text,     \* the text of the report the tool wrote
    \* ---- the locals of the running call
    output_,
    cdhit_tempout,
    trace,          \* the steps the running call has taken
    released        \* per sample: how often the input resource was released

VARIABLES
    \* ---- the pipeline of the command line
    table,          \* the rows of the input table: per sample, the records in its files
    samples,        \* the collection the stages hand on
    nseq,           \* the --nseq option of FILTER
    kept,           \* the samples size_filt has yielded
    \* ---- the assembly of the routers
    routers,        \* the routers the chained commands returned
    dtype,          \* the --dtype option
    cur_type,       \* the type the assembly has arrived at
    chosen,         \* the Map matched at every stage so far
    invoked,        \* the transformation functions that were called, in order
    compile_error   \* the TypeMismatch the assembly ended in, if any

parseVars == <<report, handle, drop_empty, parsed>>

cliVars == <<table, samples, nseq, kept>>

compileVars == <<routers, dtype, cur_type, chosen, invoked, compile_error>>

pickVars == <<tmpdir_exists, which_finds, calls, idx, pc, rets, records, crashed,
              res_released, fs, removed, nrand, out_lines, clstr_text, output_,
              cdhit_tempout, trace, released>>

vars == <<parseVars, cliVars, compileVars, pickVars>>

None == "None"

\* ------------------------------------------------------------------ bounds

\* the longest cluster report, in lines
MaxLines == 4

\* the largest batch of samples handed to the clustering
MaxSamples == 2

\* the most rows of the input table
MaxRows == 3

\* the most truthy records in the files of one sample
MaxReads == 2

\* the largest --nseq
MaxNseq == 3

\* the most chained commands
MaxStages == 3

\* ------------------------------------------------------------ text helpers

Whitespace == {" ", "\t", "\n"}

RECURSIVE lstrip(_)
lstrip(s) ==
    IF s # <<>> /\ Head(s) \in Whitespace THEN lstrip(Tail(s)) ELSE s

RECURSIVE rstrip(_)
rstrip(s) ==
    IF s # <<>> /\ s[Len(s)] \in Whitespace
    THEN rstrip(SubSeq(s, 1, Len(s) - 1))
    ELSE s

\* str.strip
strip(s) == rstrip(lstrip(s))

\* l.startswith('>')
startswith_gt(l) == l # <<>> /\ Head(l) = ">"

\* the three dots closing an identifier start at position j of line
DotsAt(line, j) ==
    /\ j >= 1
    /\ j + 2 <= Len(line)
    /\ line[j] = "." /\ line[j + 1] = "." /\ line[j + 2] = "."

\* '>(.+?)\.\.\.' matched with its '>' at position i: the group is not empty,
\* holds no newline ('.' does not match one) and is as short as possible
MatchEnds(line, i) ==
    {j \in (i + 2)..Len(line) :
        /\ DotsAt(line, j)
        /\ \A k \in (i + 1)..(j - 1) : line[k] # "\n"}

MatchStarts(line, from) ==
    {i \in from..Len(line) : line[i] = ">" /\ MatchEnds(line, i) # {}}

Min(S) == CHOOSE x \in S : \A y \in S : x <= y

RECURSIVE findall(_, _)
findall(line, from) ==
    IF MatchStarts(line, from) = {} THEN <<>>
    ELSE LET i == Min(MatchStarts(line, from))
             j == Min(MatchEnds(line, i))
         IN  <<SubSeq(line, i + 1, j - 1)>> \o findall(line, j + 3)

\* SEQID = re.compile('>(.+?)\.\.\.').findall
SEQID(line) == findall(line, 1)

\* ------------------------------------------------------------ the parser

\* transform_cluster with the size test off by one: pairs are dropped as well
transform_cluster_DropPairs(de, cluster) ==
    IF \E k \in DOMAIN cluster : SEQID(cluster[k]) = <<>>
    THEN [kind |-> "IndexError"]
    ELSE LET seqids == [k \in DOMAIN cluster |-> SEQID(cluster[k])[1]]
         IN  IF de
             THEN IF Len(seqids) > 2
                  THEN [kind |-> "value", val |-> seqids]
                  ELSE [kind |-> "None"]
             ELSE [kind |-> "value", val |-> seqids]

\* transform_cluster: the first identifier of every line of the group; a line
\* without one raises IndexError; None for a group of one line under drop_empty
transform_cluster(de, cluster) ==
    IF \E k \in DOMAIN cluster : SEQID(cluster[k]) = <<>>
    THEN [kind |-> "IndexError"]
    ELSE LET seqids == [k \in DOMAIN cluster |-> SEQID(cluster[k])[1]]
         IN  IF de
             THEN IF Len(seqids) > 1
                  THEN [kind |-> "value", val |-> seqids]
                  ELSE [kind |-> "None"]
             ELSE [kind |-> "value", val |-> seqids]

\* itertools.groupby(x, key): the maximal runs of lines with equal key
RECURSIVE groupby(_)
groupby(lines) ==
    IF lines = <<>> THEN <<>>
    ELSE LET k == startswith_gt(Head(lines))
             rest == groupby(Tail(lines))
         IN  IF rest # <<>> /\ rest[1].key = k
             THEN <<[key |-> k, group |-> <<Head(lines)>> \o rest[1].group]>>
                  \o Tail(rest)
             ELSE <<[key |-> k, group |-> <<Head(lines)>>]>> \o rest

\* filter(pred, xs)
RECURSIVE filter_bool(_)
filter_bool(xs) ==
    IF xs = <<>> THEN <<>>
    ELSE IF Head(xs) # <<>> THEN <<Head(xs)>> \o filter_bool(Tail(xs))
         ELSE filter_bool(Tail(xs))

\* the group filter with its test inverted: (filter, lambda x: x[0])
member_groups_KeepHeaders(groups) ==
    SelectSeq(groups, LAMBDA g : g.key)

\* the groups that groupby's consumer keeps: (filter, lambda x: not x[0])
member_groups(groups) ==
    SelectSeq(groups, LAMBDA g : ~g.key)

\* the lazy tail of the pipeline: the groups are transformed one at a time as
\* the caller iterates, so the clusters before a failing group are yielded
RECURSIVE emit(_, _)
emit(de, groups) ==
    IF groups = <<>> THEN [clusters |-> <<>>, raised |-> None]
    ELSE LET t == transform_cluster(de, Head(groups).group)
         IN  IF t.kind = "IndexError"
             THEN [clusters |-> <<>>, raised |-> "IndexError"]
             ELSE LET r == emit(de, Tail(groups))
                  IN  IF t.kind = "None" \/ t.val = <<>>
                      THEN r
                      ELSE [clusters |-> <<t.val>> \o r.clusters,
                            raised |-> r.raised]

\* parse_cdhit_clusters, iterated to its end by the caller
parse_cdhit_clusters(de, h) ==
    LET stripped == [i \in DOMAIN h |-> strip(h[i])]
        nonblank == filter_bool(stripped)
    IN  emit(de, member_groups(groupby(nonblank)))

\* ------------------------------------------------- the reports that are read

ref == <<"r", "e", "f">>
seqA == <<"s", "e", "q", "A">>
seqB == <<"s", "e", "q", "B">>
ref2 == <<"r", "e", "f", "2">>

\* the lines cd-hit writes into '<output>.clstr': a '>Cluster n' header, then one
\* line per member, 'n<TAB>9nt, >id... *' for the representative and
\* 'n<TAB>9nt, >id... at +/97%' for the others; and a blank line
ToolLines ==
    { [kind |-> "header", n |-> "0", id |-> <<>>, mark |-> <<>>],
      [kind |-> "member", n |-> "0", id |-> ref, mark |-> <<"*">>],
      [kind |-> "member", n |-> "1", id |-> seqA,
       mark |-> <<"a", "t", " ", "+", "/", "9", "7", "%">>],
      [kind |-> "blank", n |-> "", id |-> <<>>, mark |-> <<>>] }

\* the lines '>id...' of the report of the spec's example
ExampleLines ==
    { [kind |-> "idline", n |-> "", id |-> i, mark |-> <<>>] :
        i \in {ref, seqA, seqB, ref2} }

\* a line as the file handle yields it, with its line break
Render(d) ==
    CASE d.kind = "header" ->
            <<">", "C", "l", "u", "s", "t", "e", "r", " ", d.n, "\n">>
      [] d.kind = "member" ->
            <<d.n, "\t", "9", "n", "t", ",", " ", ">">> \o d.id
            \o <<".", ".", ".", " ">> \o d.mark \o <<"\n">>
      [] d.kind = "cut" -> <<d.n, "\t", "9", "n", "t", "\n">>
      [] d.kind = "idline" -> <<">">> \o d.id \o <<".", ".", ".", "\n">>
      [] OTHER -> <<"\n">>

SeqsUpTo(S, n) == UNION {[1..k -> S] : k \in 0..n}

Reports == SeqsUpTo(ToolLines, MaxLines) \cup SeqsUpTo(ExampleLines, MaxLines)

\* ">ref...\n>seqA...\n>seqB...\n>ref2...\n"
ExampleReport ==
    [i \in 1..4 |->
        [kind |-> "idline", n |-> "", id |-> <<ref, seqA, seqB, ref2>>[i],
         mark |-> <<>>]]

\* ------------------------------------------------------------- the files

Path(dir, n, ext) == [dir |-> dir, n |-> n, ext |-> ext]

NoPath == Path("", 0, "")

\* the file of the reads of sample i
InPath(i) == Path("data", i, "")

\* the output path the caller names for sample i
OutPath(i) == Path("user", i, "")

\* util.randname(tmpdir, ''): a name inside tmpdir that was not given out before
randname(k) == Path("tmpdir", k + 1, "")

\* f'{output}.clstr'
ClstrOf(p) == Path(p.dir, p.n, ".clstr")

\* print('\t'.join(cluster), file=out)
RECURSIVE join_tab(_)
join_tab(cluster) ==
    IF cluster = <<>> THEN <<"\n">>
    ELSE IF Len(cluster) = 1 THEN Head(cluster) \o <<"\n">>
         ELSE Head(cluster) \o <<"\t">> \o join_tab(Tail(cluster))

\* a report of two clusters, and one whose last member line was cut short
GoodReport ==
    <<[kind |-> "header", n |-> "0", id |-> <<>>, mark |-> <<>>],
      [kind |-> "member", n |-> "0", id |-> ref, mark |-> <<"*">>],
      [kind |-> "member", n |-> "1", id |-> seqA, mark |-> <<"a", "t">>],
      [kind |-> "header", n |-> "1", id |-> <<>>, mark |-> <<>>],
      [kind |-> "member", n |-> "0", id |-> seqB, mark |-> <<"*">>]>>

CutReport ==
    <<[kind |-> "header", n |-> "0", id |-> <<>>, mark |-> <<>>],
      [kind |-> "member", n |-> "0", id |-> ref, mark |-> <<"*">>],
      [kind |-> "member", n |-> "1", id |-> seqA, mark |-> <<"a", "t">>],
      [kind |-> "header", n |-> "1", id |-> <<>>, mark |-> <<>>],
      [kind |-> "cut", n |-> "0", id |-> <<>>, mark |-> <<>>]>>

ClstrTexts ==
    { [i \in DOMAIN r |-> Render(r[i])] : r \in {GoodReport, CutReport} }

\* the files the child process leaves behind: its sequences, its report
ToolOutputs == SUBSET {"seqs", "clusters"}

\* ------------------------------------------------------------- outcomes

\* what a call gives its caller: a value, None, or an exception
Raise(e) == [kind |-> "raise", exc |-> e, clusters |-> NoPath, delete |-> FALSE]

Absent == [kind |-> "None", exc |-> None, clusters |-> NoPath, delete |-> FALSE]

Value(p, d) == [kind |-> "value", exc |-> None, clusters |-> p, delete |-> d]

\* util.fallible(*exceptions): the listed exceptions become None, every other
\* exception passes through
fallible(exceptions, outcome) ==
    IF outcome.kind = "raise" /\ outcome.exc \in exceptions THEN Absent
    ELSE outcome

\* cdhit is decorated with fallible(RuntimeError, sp.CalledProcessError)
cdhit_decorated(outcome) ==
    fallible({"RuntimeError", "CalledProcessError"}, outcome)

\* seqs, clusterfile = cdhit(...): None cannot be unpacked
unpack(outcome) ==
    IF outcome.kind = "None" THEN Raise("TypeError") ELSE outcome

\* cdpick is decorated with fallible(RuntimeError, FileNotFoundError)
cdpick_decorated(outcome) ==
    fallible({"RuntimeError", "FileNotFoundError"}, outcome)

\* the result built as owning its file whatever the caller asked for
SampleClusters_AlwaysOwns(out, output) == Value(out, TRUE)

\* SampleClusters(input.name, clusters=output_, delete=output is None)
SampleClusters(out, output) == Value(out, output = NoPath)

\* the paths a released resource deletes: its files if it owns them
release(files, delete) == IF delete THEN files ELSE {}

\* the input released by hand before the return statement only
with_input_exits_OnReturnOnly(inside, outcome) ==
    IF inside /\ outcome.kind = "value" THEN 1 ELSE 0

\* 'with input:' leaves through __exit__ on every way out of its body
with_input_exits(inside, outcome) == IF inside THEN 1 ELSE 0

\* the two files of the tool kept when the caller named the output
removals_OnlyWhenOwned(seqs, clusterfile, output) ==
    IF output = NoPath THEN <<seqs, clusterfile>> ELSE <<>>

\* os.remove of the two files of the tool, in the order of the code
removals(seqs, clusterfile, output) == <<seqs, clusterfile>>

\* ------------------------------------------------------------- the batch

Samples == [delete : BOOLEAN, output : BOOLEAN]

Batches == UNION {[1..n -> Samples] : n \in 1..MaxSamples}

\* the output argument of call i
output_arg(i) == IF calls[i].output THEN OutPath(i) ELSE NoPath

ParseIdle ==
    /\ report = <<>>
    /\ handle = <<>>
    /\ parsed = [called |-> FALSE, clusters |-> <<>>, raised |-> None]

NoError == [stage |-> 0, name |-> "", type |-> ""]

CliIdle ==
    /\ table = <<>>
    /\ samples = <<>>
    /\ nseq = 1
    /\ kept = <<>>

CompileIdle ==
    /\ routers = <<>>
    /\ dtype = ""
    /\ cur_type = ""
    /\ chosen = <<>>
    /\ invoked = <<>>
    /\ compile_error = NoError

Init ==
    /\ ParseIdle
    /\ CliIdle
    /\ CompileIdle
    /\ drop_empty \in BOOLEAN
    /\ tmpdir_exists \in BOOLEAN
    /\ which_finds \in BOOLEAN
    /\ calls \in Batches
    /\ idx = 1
    /\ pc = "idle"
    /\ rets = <<>>
    /\ records = <<>>
    /\ crashed = None
    /\ res_released = {}
    /\ fs = {InPath(i) : i \in DOMAIN calls}
    /\ removed = {}
    /\ nrand = 0
    /\ out_lines = <<>>
    /\ clstr_text = <<>>
    /\ output_ = NoPath
    /\ cdhit_tempout = NoPath
    /\ trace = <<>>
    /\ released = [i \in DOMAIN calls |-> 0]

\* control leaves cdpick with `raw`, raised or returned at `step`: the with
\* block releases the input if control was inside it, the decorator of cdpick
\* turns its exceptions into None, and the batch collects a value, skips a
\* None and ends on an exception
Leave(raw, inside, fs1, rm1, step) ==
    LET o == cdpick_decorated(raw)
        n == with_input_exits(inside, raw)
        gone == IF n > 0 THEN release({InPath(idx)}, calls[idx].delete) ELSE {}
    IN  /\ fs' = fs1 \ gone
        /\ removed' = rm1 \cup (gone \cap fs1)
        /\ released' = [released EXCEPT ![idx] = @ + n]
        /\ rets' = Append(rets, [kind |-> o.kind, exc |-> o.exc,
                                 clusters |-> o.clusters, delete |-> o.delete,
                                 steps |-> Append(trace, step),
                                 seqs |-> cdhit_tempout])
        /\ records' = IF o.kind = "value" THEN Append(records, idx) ELSE records
        /\ crashed' = IF o.kind = "raise" THEN o.exc ELSE crashed
        /\ pc' = IF o.kind = "raise" THEN "crashed" ELSE "idle"
        /\ idx' = idx + 1
        /\ output_' = NoPath
        /\ cdhit_tempout' = NoPath
        /\ clstr_text' = <<>>
        /\ trace' = <<>>

\* the batch calls cdpick on its next sample
batch_call ==
    /\ pc = "idle"
    /\ idx <= Len(calls)
    /\ pc' = "tmpdir"
    /\ UNCHANGED <<parseVars, cliVars, compileVars, tmpdir_exists, which_finds, calls, idx, rets,
                   records, crashed, res_released, fs, removed, nrand,
                   out_lines, clstr_text, output_, cdhit_tempout, trace,
                   released>>

\* the batch has gone through its samples
batch_end ==
    /\ pc = "idle"
    /\ idx > Len(calls)
    /\ pc' = "finished"
    /\ UNCHANGED <<parseVars, cliVars, compileVars, tmpdir_exists, which_finds, calls, idx, rets,
                   records, crashed, res_released, fs, removed, nrand,
                   out_lines, clstr_text, output_, cdhit_tempout, trace,
                   released>>

\* cdpick, picking.py:85-88: the tmpdir test, then the two paths
cdpick_tmpdir ==
    /\ pc = "tmpdir"
    /\ IF ~tmpdir_exists
       THEN /\ Leave(Raise("ValueError"), FALSE, fs, removed, "tmpdir")
            /\ UNCHANGED nrand
       ELSE /\ output_' = IF output_arg(idx) = NoPath THEN randname(nrand)
                          ELSE output_arg(idx)
            /\ nrand' = IF output_arg(idx) = NoPath THEN nrand + 2 ELSE nrand + 1
            /\ cdhit_tempout' = IF output_arg(idx) = NoPath
                                THEN randname(nrand + 1) ELSE randname(nrand)
            /\ trace' = Append(trace, "tmpdir")
            /\ pc' = "with"
            /\ UNCHANGED <<idx, rets, records, crashed, fs, removed, clstr_text,
                           released>>
    /\ UNCHANGED <<parseVars, cliVars, compileVars, tmpdir_exists, which_finds, calls, res_released,
                   out_lines>>

\* cdpick, picking.py:89-90: the with block is entered
cdpick_enter ==
    /\ pc = "with"
    /\ trace' = Append(trace, "enter")
    /\ pc' = "which"
    /\ UNCHANGED <<parseVars, cliVars, compileVars, tmpdir_exists, which_finds, calls, idx, rets,
                   records, crashed, res_released, fs, removed, nrand,
                   out_lines, clstr_text, output_, cdhit_tempout, released>>

\* cdhit, picking.py:62-66: the executable is looked up once
cdhit_which ==
    /\ pc = "which"
    /\ IF ~which_finds
       THEN Leave(unpack(cdhit_decorated(Raise("RuntimeError"))), TRUE, fs,
                  removed, "which")
       ELSE /\ trace' = Append(trace, "which")
            /\ pc' = "run"
            /\ UNCHANGED <<idx, rets, records, crashed, fs, removed, clstr_text,
                           output_, cdhit_tempout, released>>
    /\ UNCHANGED <<parseVars, cliVars, compileVars, tmpdir_exists, which_finds, calls, res_released,
                   nrand, out_lines>>

\* cdhit, picking.py:67-78: the child process runs to its end; it exits with
\* some status and leaves some of its two files behind
cdhit_run ==
    /\ pc = "run"
    /\ \E returncode \in {0, 1}, made \in ToolOutputs, text \in ClstrTexts :
        LET fs1 == fs \cup {cdhit_tempout : x \in made \cap {"seqs"}}
                      \cup {ClstrOf(cdhit_tempout) : x \in made \cap {"clusters"}}
        IN  IF returncode # 0
            THEN Leave(unpack(cdhit_decorated(Raise("RuntimeError"))), TRUE,
                       fs1, removed, "run")
            ELSE /\ fs' = fs1
                 /\ clstr_text' = IF "clusters" \in made THEN text ELSE <<>>
                 /\ trace' = Append(trace, "run")
                 /\ pc' = "parse"
                 /\ UNCHANGED <<idx, rets, records, crashed, removed, output_,
                                cdhit_tempout, released>>
    /\ UNCHANGED <<parseVars, cliVars, compileVars, tmpdir_exists, which_finds, calls, res_released,
                   nrand, out_lines>>

\* cdpick, picking.py:94-96: the report is opened, the output is opened for
\* writing, and the clusters are written one by one as they are parsed
cdpick_parse ==
    /\ pc = "parse"
    /\ IF ClstrOf(cdhit_tempout) \notin fs
       THEN /\ Leave(Raise("FileNotFoundError"), TRUE, fs, removed, "open")
            /\ UNCHANGED out_lines
       ELSE LET r == parse_cdhit_clusters(drop_empty, clstr_text)
                fs1 == fs \cup {output_}
            IN  /\ out_lines' = [k \in DOMAIN r.clusters |-> join_tab(r.clusters[k])]
                /\ IF r.raised # None
                   THEN Leave(Raise(r.raised), TRUE, fs1, removed, "parse")
                   ELSE /\ fs' = fs1
                        /\ trace' = Append(trace, "parse")
                        /\ pc' = "remove"
                        /\ UNCHANGED <<idx, rets, records, crashed, removed,
                                       clstr_text, output_, cdhit_tempout,
                                       released>>
    /\ UNCHANGED <<parseVars, cliVars, compileVars, tmpdir_exists, which_finds, calls, res_released,
                   nrand>>

\* cdpick, picking.py:98-104: the two files of the tool are removed, the
\* resource is built and returned, and the with block is left
cdpick_remove_return ==
    /\ pc = "remove"
    /\ LET rm == removals(cdhit_tempout, ClstrOf(cdhit_tempout), output_arg(idx))
           \* os.remove raises FileNotFoundError at the first path that is missing
           missing == {k \in DOMAIN rm : rm[k] \notin fs}
           done == IF missing = {} THEN Len(rm) ELSE Min(missing) - 1
           gone == {rm[k] : k \in 1..done}
       IN  IF missing # {}
           THEN Leave(Raise("FileNotFoundError"), TRUE, fs \ gone,
                      removed \cup gone, "remove")
           ELSE Leave(SampleClusters(output_, output_arg(idx)), TRUE,
                      fs \ gone, removed \cup gone, "return")
    /\ UNCHANGED <<parseVars, cliVars, compileVars, tmpdir_exists, which_finds, calls, res_released,
                   nrand, out_lines>>

\* the caller releases a result it has collected
release_result ==
    /\ pc \in {"idle", "finished"}
    /\ \E i \in {records[k] : k \in DOMAIN records} \ res_released :
        LET gone == release({rets[i].clusters}, rets[i].delete) \cap fs
        IN  /\ fs' = fs \ gone
            /\ removed' = removed \cup gone
            /\ res_released' = res_released \cup {i}
    /\ UNCHANGED <<parseVars, cliVars, compileVars, tmpdir_exists, which_finds, calls, idx, pc, rets,
                   records, crashed, nrand, out_lines, clstr_text, output_,
                   cdhit_tempout, trace, released>>

Next ==
    \/ batch_call
    \/ batch_end
    \/ cdpick_tmpdir
    \/ cdpick_enter
    \/ cdhit_which
    \/ cdhit_run
    \/ cdpick_parse
    \/ cdpick_remove_return
    \/ release_result

Spec == Init /\ [][Next]_vars

\* ------------------------------------------------------- the parser alone

\* no batch runs
PickIdle ==
    /\ tmpdir_exists = TRUE
    /\ which_finds = TRUE
    /\ calls = <<>>
    /\ rets = <<>>
    /\ records = <<>>
    /\ crashed = None
    /\ res_released = {}
    /\ nrand = 0
    /\ out_lines = <<>>
    /\ clstr_text = <<>>
    /\ output_ = NoPath
    /\ cdhit_tempout = NoPath
    /\ trace = <<>>

\* the variables of a batch that the other parts of the program do not share
pickOnly == <<tmpdir_exists, which_finds, calls, rets, records, crashed,
              res_released, nrand, out_lines, clstr_text, output_,
              cdhit_tempout, trace>>

InitParse ==
    /\ PickIdle
    /\ CliIdle
    /\ CompileIdle
    /\ pc = "parser"
    /\ idx = 1
    /\ fs = {}
    /\ removed = {}
    /\ released = <<>>
    /\ report \in Reports
    /\ handle = [i \in DOMAIN report |-> Render(report[i])]
    /\ drop_empty \in BOOLEAN
    /\ parsed = [called |-> FALSE, clusters |-> <<>>, raised |-> None]

\* the caller iterates parse_cdhit_clusters(drop_empty, handle) to its end
Parse ==
    /\ ~parsed.called
    /\ LET r == parse_cdhit_clusters(drop_empty, handle)
       IN  parsed' = [called |-> TRUE, clusters |-> r.clusters,
                      raised |-> r.raised]
    /\ UNCHANGED <<report, handle, drop_empty, cliVars, compileVars, pickVars>>

NextParse == Parse

SpecParse == InitParse /\ [][NextParse]_vars

\* ------------------------------------------------ the pipeline of the CLI

\* what sample.parse() yields, as the truth value of every record: one falsy
\* record or none, then the truthy ones
RecordLists ==
    { [k \in 1..(f + t) |-> k > f] : f \in 0..1, t \in 0..MaxReads }

\* the input table has a row at least (_input_paths_exist)
Tables == UNION {[1..n -> RecordLists] : n \in 1..MaxRows}

\* the two files of the row i of the table
UserFiles(i) == {Path("data", i, "R1"), Path("data", i, "R2")}

\* the two files a stage writes for sample i
StageFiles(i) == {Path("tmpdir", i, "R1"), Path("tmpdir", i, "R2")}

\* the resources built as owning the files of the table
pipeline_delete_Owning == TRUE

\* single_t(name, *files, delete=False)
pipeline_delete == FALSE

InitCli ==
    /\ ParseIdle
    /\ drop_empty = FALSE
    /\ PickIdle
    /\ CompileIdle
    /\ table \in Tables
    /\ nseq \in 1..MaxNseq
    /\ samples = <<>>
    /\ kept = <<>>
    /\ pc = "pipeline"
    /\ idx = 1
    /\ fs = UNION {UserFiles(i) : i \in DOMAIN table}
    /\ removed = {}
    /\ released = [i \in DOMAIN table |-> 0]

\* pipeline, pampi.py:87-92: one resource per row of the table
pipeline_build ==
    /\ pc = "pipeline"
    /\ samples' = [i \in DOMAIN table |->
                      [name |-> i, files |-> UserFiles(i),
                       delete |-> pipeline_delete, reads |-> table[i]]]
    /\ pc' = "built"
    /\ UNCHANGED <<parseVars, compileVars, pickOnly, table, nseq, kept, idx, fs,
                   removed, released>>

\* a stage before FILTER (TRIM, a Map from paired fastq to paired fastq): its
\* samples are over files of its own, which they own unless an outdir was
\* given, and the samples it consumed are released
trimmer_stage ==
    /\ pc = "built"
    /\ \E owns \in BOOLEAN :
        LET gone == UNION {release(samples[i].files, samples[i].delete) :
                              i \in DOMAIN samples}
        IN  /\ samples' = [i \in DOMAIN samples |->
                              [name |-> i, files |-> StageFiles(i),
                               delete |-> owns, reads |-> samples[i].reads]]
            /\ fs' = (fs \ gone) \cup UNION {StageFiles(i) : i \in DOMAIN samples}
            /\ removed' = removed \cup (gone \cap fs)
    /\ pc' = "trimmed"
    /\ UNCHANGED <<parseVars, compileVars, pickOnly, table, nseq, kept, idx,
                   released>>

\* sum(map(bool, sample.parse()))
RECURSIVE sum_bool(_)
sum_bool(reads) ==
    IF reads = <<>> THEN 0
    ELSE (IF Head(reads) THEN 1 ELSE 0) + sum_bool(Tail(reads))

\* the test with > for >=
size_ok_Strict(sample, n) == sum_bool(sample.reads) > n

\* size_filt, pampi.py:143
size_ok(sample, n) == sum_bool(sample.reads) >= n

\* the Map of FILTER is called on the collection
sample_filter_call ==
    /\ pc \in {"built", "trimmed"}
    /\ pc' = "filter"
    /\ idx' = 1
    /\ kept' = <<>>
    /\ UNCHANGED <<parseVars, compileVars, pickOnly, table, samples, nseq, fs,
                   removed, released>>

\* size_filt, pampi.py:142-146: the next sample is yielded or released
size_filt_next ==
    /\ pc = "filter"
    /\ idx <= Len(samples)
    /\ IF size_ok(samples[idx], nseq)
       THEN /\ kept' = Append(kept, samples[idx])
            /\ UNCHANGED <<fs, removed, released>>
       ELSE LET gone == release(samples[idx].files, samples[idx].delete)
            IN  /\ fs' = fs \ gone
                /\ removed' = removed \cup (gone \cap fs)
                /\ released' = [released EXCEPT ![idx] = @ + 1]
                /\ UNCHANGED kept
    /\ idx' = idx + 1
    /\ UNCHANGED <<parseVars, compileVars, pickOnly, table, samples, nseq, pc>>

\* pampi.py:150: the list is complete and wrapped into the output collection
sample_filter_return ==
    /\ pc = "filter"
    /\ idx > Len(samples)
    /\ pc' = "filtered"
    /\ UNCHANGED <<parseVars, compileVars, pickOnly, table, samples, nseq, kept,
                   idx, fs, removed, released>>

NextCli ==
    \/ pipeline_build
    \/ trimmer_stage
    \/ sample_filter_call
    \/ size_filt_next
    \/ sample_filter_return

SpecCli == InitCli /\ [][NextCli]_vars

\* ------------------------------------------------ the assembly of the routers

MultiplePairedFastq == "MultiplePairedFastq"
MultipleFastq == "MultipleFastq"
MultipleFasta == "MultipleFasta"
MultipleClusters == "MultipleClusters"
SamplePairedFastq == "SamplePairedFastq"
SampleFastq == "SampleFastq"
SampleFasta == "SampleFasta"
SampleClustersT == "SampleClusters"

Map(in, out) == [in |-> in, out |-> out]

\* the Router of TRIM
trimmer == [name |-> "trimmer",
            maps |-> {Map(MultiplePairedFastq, MultiplePairedFastq)}]

\* the Router of FILTER
sample_filter == [name |-> "filter",
                  maps |-> {Map(MultiplePairedFastq, MultiplePairedFastq)}]

\* the Router of JOIN; the Map for paired fastq is there when no output is given
\* or the output is a pattern
joiner(pattern) ==
    [name |-> "joiner",
     maps |-> {Map(MultipleFasta, SampleFasta), Map(MultipleFastq, SampleFastq),
               Map(MultipleClusters, SampleClustersT)}
              \cup (IF pattern THEN {Map(MultiplePairedFastq, SamplePairedFastq)}
                    ELSE {})]

\* the Router of PICK
picker == [name |-> "picker",
           maps |-> {Map(SampleFasta, SampleClustersT),
                     Map(MultipleFasta, MultipleClusters),
                     Map(SampleFastq, SampleClustersT),
                     Map(MultipleFastq, MultipleClusters),
                     Map(SamplePairedFastq, SampleClustersT),
                     Map(MultiplePairedFastq, MultipleClusters)}]

Routers == {trimmer, sample_filter, joiner(TRUE), joiner(FALSE), picker}

\* _INPUT_DTYPE_DISPATCH[dtype][1]
multiple_t(d) ==
    CASE d = "clusters" -> MultipleClusters
      [] d = "fasta" -> MultipleFasta
      [] d = "fastq" -> MultipleFastq
      [] OTHER -> MultiplePairedFastq

DTypes == {"clusters", "fasta", "fastq", "paired_fastq"}

\* the alternatives of a router for a type
alternatives_for(router, t) == {m \in router.maps : m.in = t}

\* an assembly that calls the matched function as soon as it is matched
assembly_calls_Eager(stage, router) == <<[stage |-> stage, name |-> router.name]>>

\* the functions the assembly calls while it matches a stage: none
assembly_calls(stage, router) == <<>>

InitCompile ==
    /\ ParseIdle
    /\ drop_empty = FALSE
    /\ PickIdle
    /\ CliIdle
    /\ routers \in SeqsUpTo(Routers, MaxStages)
    /\ dtype \in DTypes
    /\ cur_type = ""
    /\ chosen = <<>>
    /\ invoked = <<>>
    /\ compile_error = NoError
    /\ pc = "pipeline"
    /\ idx = 1
    /\ fs = {}
    /\ removed = {}
    /\ released = <<>>

\* pipeline, pampi.py:83-84: no command was chained
pipeline_exit ==
    /\ pc = "pipeline"
    /\ routers = <<>>
    /\ pc' = "exit"
    /\ UNCHANGED <<parseVars, cliVars, pickOnly, compileVars, idx, fs, removed,
                   released>>

\* pipeline, pampi.py:87-95: the assembly starts from the multiple type of dtype
pipeline_pcompile ==
    /\ pc = "pipeline"
    /\ routers # <<>>
    /\ cur_type' = multiple_t(dtype)
    /\ idx' = 1
    /\ pc' = "compile"
    /\ UNCHANGED <<parseVars, cliVars, pickOnly, routers, dtype, chosen, invoked,
                   compile_error, fs, removed, released>>

\* core.pcompile at one stage: the alternative for the current type is matched
\* and its output type carried on, or the assembly fails with the stage's name
pcompile_stage ==
    /\ pc = "compile"
    /\ idx <= Len(routers)
    /\ LET alts == alternatives_for(routers[idx], cur_type)
       IN  IF alts = {}
           THEN /\ compile_error' = [stage |-> idx, name |-> routers[idx].name,
                                     type |-> cur_type]
                /\ pc' = "failed"
                /\ UNCHANGED <<cur_type, chosen, invoked, idx>>
           ELSE \E m \in alts :
                    /\ chosen' = Append(chosen, m)
                    /\ cur_type' = m.out
                    /\ invoked' = invoked \o assembly_calls(idx, routers[idx])
                    /\ idx' = idx + 1
                    /\ UNCHANGED <<compile_error, pc>>
    /\ UNCHANGED <<parseVars, cliVars, pickOnly, routers, dtype, fs, removed,
                   released>>

\* the assembly is complete; pipeline applies the composed function to samples
pcompile_apply ==
    /\ pc = "compile"
    /\ idx > Len(routers)
    /\ pc' = "run"
    /\ idx' = 1
    /\ UNCHANGED <<parseVars, cliVars, pickOnly, routers, dtype, cur_type, chosen,
                   invoked, compile_error, fs, removed, released>>

\* the composed function calls the matched function of its next stage
run_stage ==
    /\ pc = "run"
    /\ idx <= Len(chosen)
    /\ invoked' = Append(invoked, [stage |-> idx, name |-> routers[idx].name])
    /\ idx' = idx + 1
    /\ UNCHANGED <<parseVars, cliVars, pickOnly, routers, dtype, cur_type, chosen,
                   compile_error, pc, fs, removed, released>>

\* the composed function returns the final collection
run_return ==
    /\ pc = "run"
    /\ idx > Len(chosen)
    /\ pc' = "ran"
    /\ UNCHANGED <<parseVars, cliVars, pickOnly, compileVars, idx, fs, removed,
                   released>>

NextCompile ==
    \/ pipeline_exit
    \/ pipeline_pcompile
    \/ pcompile_stage
    \/ pcompile_apply
    \/ run_stage
    \/ run_return

SpecCompile == InitCompile /\ [][NextCompile]_vars

\* ---------------------------------------------------------------- claims

\* the header lines of a report: the lines that begin with '>'
IsHeader(d) == d.kind \in {"header", "idline"}

MemberLines(r) == {i \in DOMAIN r : r[i].kind = "member"}

\* no header line lies between the lines i and j
SameBlock(r, i, j) == \A k \in i..j : ~IsHeader(r[k])

\* the first member line of every block
BlockStarts(r) ==
    {i \in MemberLines(r) : \A j \in MemberLines(r) : j < i => ~SameBlock(r, j, i)}

RECURSIVE SortedSeq(_)
SortedSeq(S) ==
    IF S = {} THEN <<>> ELSE <<Min(S)>> \o SortedSeq(S \ {Min(S)})

\* the identifiers of the block that starts at line s, in line order
BlockIds(r, s) ==
    LET lines == SortedSeq({k \in MemberLines(r) : k >= s /\ SameBlock(r, s, k)})
    IN  [k \in DOMAIN lines |-> r[lines[k]].id]

ExpectedClusters(r, de) ==
    LET starts == SortedSeq(BlockStarts(r))
        all == [k \in DOMAIN starts |-> BlockIds(r, starts[k])]
    IN  IF de THEN SelectSeq(all, LAMBDA c : Len(c) # 1) ELSE all

\* C1 as stated: the report ">ref...\n>seqA...\n>seqB...\n>ref2...\n" yields
\* [[ref, seqA, seqB], [ref2]] without drop_empty and [[ref, seqA, seqB]] with it
C1_AsStated ==
    (parsed.called /\ report = ExampleReport) =>
        parsed.clusters = IF drop_empty
                          THEN <<(<<ref, seqA, seqB>>)>>
                          ELSE <<(<<ref, seqA, seqB>>), (<<ref2>>)>>

\* C1 amended: every line of that report begins with '>', so every line is a
\* block header and the parse yields no cluster at all, whatever drop_empty is,
\* and raises nothing
C1_ExampleYieldsNoCluster ==
    (parsed.called /\ report = ExampleReport) =>
        parsed.clusters = <<>> /\ parsed.raised = None

C1_Witness == parsed.called /\ report = ExampleReport /\ drop_empty

\* C9: one cluster per block, in block order, each the identifiers of the
\* block's member lines in line order; drop_empty discards exactly the blocks of
\* one member, and without it every block is kept whole
C9_ClustersMirrorBlocks ==
    parsed.called =>
        /\ parsed.raised = None
        /\ parsed.clusters = ExpectedClusters(report, drop_empty)

C9_Witness ==
    /\ parsed.called
    /\ drop_empty
    /\ Cardinality(BlockStarts(report)) = 2
    /\ parsed.clusters = <<(<<ref, seqA>>)>>


\* the call i ended in the child process exiting with a non-zero status
ToolFailed(i) == rets[i].steps[Len(rets[i].steps)] = "run"

BatchOver == pc \in {"finished", "crashed"}

\* C2 as stated: a call whose child process fails ends in None and raises
\* nothing, so a batch of N samples with exactly one such call, the others
\* succeeding, ends with N-1 records and without an exception
C2_AsStated ==
    /\ \A i \in DOMAIN rets : ToolFailed(i) => rets[i].kind = "None"
    /\ ( /\ BatchOver
         /\ \E i \in DOMAIN rets :
               /\ ToolFailed(i)
               /\ \A j \in DOMAIN rets \ {i} : rets[j].kind = "value" )
       => /\ crashed = None
          /\ Len(records) = Len(calls) - 1

\* C3: a caller-named output path is never deleted and its resource does not
\* own it; without an output argument the resource owns a generated path inside
\* tmpdir, and releasing it deletes the file
C3_CallerOutputKept ==
    /\ \A i \in DOMAIN calls : calls[i].output => OutPath(i) \notin removed
    /\ \A i \in DOMAIN rets :
          rets[i].kind = "value" =>
              IF calls[i].output
              THEN /\ rets[i].clusters = OutPath(i)
                   /\ ~rets[i].delete
                   /\ OutPath(i) \in fs
              ELSE /\ rets[i].clusters.dir = "tmpdir"
                   /\ rets[i].delete
                   /\ (i \in res_released => rets[i].clusters \notin fs)

C3_Witness ==
    \E i, j \in DOMAIN rets :
        /\ rets[i].kind = "value" /\ calls[i].output /\ i \in res_released
        /\ rets[j].kind = "value" /\ ~calls[j].output /\ j \in res_released

\* C4 as stated: whatever way a call ended, the validation of tmpdir included,
\* its input was released exactly once
C4_AsStated == \A i \in DOMAIN rets : released[i] = 1

\* C4 amended: a call that got past the validation of tmpdir has released its
\* input exactly once when it ends, however it ends; a call that fails the
\* validation never acquired its input and has released it zero times; the
\* input of a call that has not ended is not yet released
C4_ReleasedOnceAfterValidation ==
    \A i \in DOMAIN calls :
        IF i \in DOMAIN rets
        THEN released[i] = IF tmpdir_exists THEN 1 ELSE 0
        ELSE released[i] = 0

C4_Witness ==
    \E i, j \in DOMAIN rets :
        /\ rets[i].kind = "None" /\ released[i] = 1
        /\ rets[j].kind = "raise" /\ rets[j].exc = "IndexError" /\ released[j] = 1

\* C7: when a call returns a result, the sequences file and the '.clstr' report
\* of the tool are gone, with or without an output argument, and the resolved
\* output path exists (until the caller releases a result that owns it)
C7_TemporariesRemoved ==
    \A i \in DOMAIN rets :
        rets[i].kind = "value" =>
            /\ rets[i].seqs \notin fs
            /\ ClstrOf(rets[i].seqs) \notin fs
            /\ {rets[i].seqs, ClstrOf(rets[i].seqs)} \subseteq removed
            /\ (i \notin res_released => rets[i].clusters \in fs)

C7_Witness ==
    \E i, j \in DOMAIN rets :
        /\ rets[i].kind = "value" /\ calls[i].output
        /\ rets[j].kind = "value" /\ ~calls[j].output /\ j \notin res_released

\* C8 as stated: when the executable is not found the call ends at once in the
\* ToolNotFound error (the RuntimeError that cdhit raises), having started no
\* child process, looked up once and done nothing after the lookup
C8_AsStated ==
    \A i \in DOMAIN rets :
        (tmpdir_exists /\ ~which_finds) =>
            /\ rets[i].kind = "raise"
            /\ rets[i].exc = "RuntimeError"
            /\ rets[i].steps = <<"tmpdir", "enter", "which">>


\* the type the assembly carries into stage k, "" when a stage before k has no
\* alternative for the type carried into it
RECURSIVE TypeBefore(_)
TypeBefore(k) ==
    IF k = 1 THEN multiple_t(dtype)
    ELSE LET t == TypeBefore(k - 1)
             outs == {m.out : m \in {a \in routers[k - 1].maps : a.in = t}}
         IN  IF t = "" \/ outs = {} THEN "" ELSE CHOOSE o \in outs : TRUE

\* the stages reached with a type they have no alternative for
GapStages ==
    {k \in DOMAIN routers :
        /\ TypeBefore(k) # ""
        /\ \A m \in routers[k].maps : m.in # TypeBefore(k)}

\* C5: when some stage has no alternative for the type carried into it, the
\* assembly fails with the TypeMismatch of the first such stage and no function
\* of any stage, those before the gap included, has been called
C5_GapFailsBeforeAnyCall ==
    /\ GapStages # {} =>
          /\ invoked = <<>>
          /\ pc \in {"pipeline", "compile", "failed"}
          /\ pc = "failed" =>
                /\ compile_error.stage = Min(GapStages)
                /\ compile_error.name = routers[Min(GapStages)].name
                /\ compile_error.type = TypeBefore(Min(GapStages))
    /\ pc = "failed" => GapStages # {}
    /\ (pc = "compile" /\ GapStages # {}) => idx <= Min(GapStages)

C5_Witness ==
    /\ pc = "failed"
    /\ compile_error.stage = 3
    /\ invoked = <<>>

\* the number of truthy records of a sample
TruthyCount(sample) == Cardinality({k \in DOMAIN sample.reads : sample.reads[k]})

\* C6: the output of FILTER is the samples with at least nseq truthy records,
\* in their order; every other sample was released once and is not in the
\* output; no sample of the output was released
C6_FilterKeepsLargeSamples ==
    pc = "filtered" =>
        /\ kept = SelectSeq(samples, LAMBDA x : TruthyCount(x) >= nseq)
        /\ \A i \in DOMAIN samples :
              IF TruthyCount(samples[i]) >= nseq
              THEN released[i] = 0
              ELSE /\ released[i] = 1
                   /\ \A k \in DOMAIN kept : kept[k].name # samples[i].name
                   /\ samples[i].delete => samples[i].files \cap fs = {}

C6_Witness ==
    /\ pc = "filtered"
    /\ Len(samples) = 3
    /\ nseq = 2
    /\ TruthyCount(samples[1]) = 0
    /\ samples[1].delete
    /\ TruthyCount(samples[2]) = 2
    /\ Len(samples[2].reads) = 3
    /\ TruthyCount(samples[3]) = 1
    /\ Len(samples[3].reads) = 2
    /\ Len(kept) = 1

\* C10: the resources built from the input table do not own their files, so no
\* release, that of a sample FILTER drops included, deletes a file of the table
C10_UserFilesKept ==
    /\ \A i \in DOMAIN table : UserFiles(i) \subseteq fs
    /\ \A i \in DOMAIN table : UserFiles(i) \cap removed = {}
    /\ \A i \in DOMAIN samples :
          samples[i].files = UserFiles(i) => ~samples[i].delete

C10_Witness ==
    /\ pc = "filtered"
    /\ \E i \in DOMAIN samples :
          /\ samples[i].files = UserFiles(i)
          /\ released[i] = 1
          /\ UserFiles(i) \subseteq fs

====
